---- MODULE Spec2Model ----
(***************************************************************************)
(* zen3d: the gesture feature extractor (HandTracker.processResults) and   *)
(* the particle state engine (App: handleHandUpdate, animate, the shape    *)
(* change effect), as one state machine.                                   *)
(*                                                                         *)
(* Numbers.  The program computes in IEEE floating point; the model        *)
(* computes in fixed point, every quantity an integer count of 1/SCALE,    *)
(* every product rounded to nearest (MulS), every quotient and square      *)
(* root rounded likewise.  0.4 is 4000, 0.008 is 80, 1.2 is 12000.         *)
(***************************************************************************)
EXTENDS Integers, Sequences, FiniteSets

(***************************************************************************)
(* Bounds of the model.                                                    *)
(***************************************************************************)
\* Number of particles (the program's PARTICLE_COUNT is 8000).
PARTICLE_COUNT == 2
\* Render ticks explored by the short-horizon specification.
MaxTicks == 2
\* Render ticks explored by the long-horizon specification (one explosion
\* lasts between 62 and 80 ticks).
MaxDecayTicks == 70
\* Shape changes explored.
MaxShapeChanges == 1
\* Render ticks the long-horizon specification explores before the first
\* hand update arrives.
MaxIdleTicks == 2
\* Render ticks of the morph's long horizon.
MaxMorphTicks == 240
\* Render ticks of an explosion followed under every interleaving.
MaxBurstTicks == 82
\* In that horizon a shape change comes in after every so many ticks.
ShapeChangePeriod == 16
\* The ticks within which an explosion dies out: the largest velocity sum
\* 2.6 * sqrt(3) times 0.92 per tick falls below 0.008.
MaxExplosionTicks == 78
\* Detection results processed while a clap is followed to its end.
MaxClapFrames == 6
\* Animation callbacks run and hand-data updates of the earlier App.
MaxOldFrames == 8

MaxOldUpdates == 6
\* The largest particle count handed to the provider called on its own.
MaxCount == 4
\* Detection results processed by the extractor's specification.
MaxFrames == 3
\* In the long-horizon specification of the extractor: results with hands,
\* and the results without hands that follow them.
MaxPresentFrames == 6
MaxAbsentRun == 61
\* The length of an absent-hand sequence that counts as sufficiently long.
SettleFrames == 60

(***************************************************************************)
(* Fixed-point arithmetic.                                                 *)
(***************************************************************************)
SCALE == 10 ^ 4

Abs(x) == IF x < 0 THEN -x ELSE x

Sign(x) == IF x > 0 THEN 1 ELSE IF x < 0 THEN -1 ELSE 0

Max2(a, b) == IF a >= b THEN a ELSE b

Min2(a, b) == IF a <= b THEN a ELSE b

\* n / d rounded to the nearest integer (d > 0), ties away from zero.
RoundDiv(n, d) ==
  IF n >= 0 THEN (2 * n + d) \div (2 * d) ELSE -((2 * (-n) + d) \div (2 * d))

\* The product of two fixed-point numbers.
MulS(a, b) == RoundDiv(a * b, SCALE)

RECURSIVE SqrtIter(_, _, _)
\* The largest r in lo..hi with r * r <= n, by bisection.
SqrtIter(n, lo, hi) ==
  IF lo >= hi THEN lo
  ELSE LET mid == (lo + hi + 1) \div 2
       IN  IF mid * mid <= n THEN SqrtIter(n, mid, hi) ELSE SqrtIter(n, lo, mid - 1)

\* Math.sqrt of a non-negative integer below 2^31, rounded to nearest.
ISqrt(n) ==
  LET r == SqrtIter(n, 0, 46340)
  IN  IF n - r * r > r THEN r + 1 ELSE r

(***************************************************************************)
(* CONFIG and the other numeric literals of App, in units of 1/SCALE.      *)
(***************************************************************************)
lerpSpeed == 350
gestureResponseSpeed == 800
explosionForce == 20000
explosionDecay == 9200
\* data.velocity > 0.4
ClapVelocity == 4000
\* data.expansion < 0.25
ClapExpansion == 2500
\* maxVel < 0.008
DecayThreshold == 80
\* the rest scale 1.2
RestScale == 12000

(***************************************************************************)
(* The shape target provider.  generateParticles draws every coordinate   *)
(* with Math.random(); a draw is one of two clouds per shape.       The    *)
(* origin is a point the generator can return (each coordinate of the      *)
(* default cloud is (Math.random() - 0.5) * 5).                            *)
(***************************************************************************)
GALAXY == "Galaxy"

SPHERE == "Sphere"

ShapeType == {GALAXY, SPHERE}

Seeds == {0, 1}

PointTable(shape) ==
  IF shape = GALAXY
  THEN << <<20000, 0, 0>>, <<0, 0, 0>>, <<-10000, 15000, 5000>>, <<0, -25000, 0>> >>
  ELSE << <<0, 0, 25000>>, <<15000, -15000, 0>>, <<-20000, 0, 0>>, <<5000, 5000, 5000>> >>

generateParticles(shape, seed) ==
  [k \in 1 .. (3 * PARTICLE_COUNT) |->
     LET i == (k - 1) \div 3
         a == ((k - 1) % 3) + 1
         tab == PointTable(shape)
     IN  tab[((i + seed) % Len(tab)) + 1][a]]

(***************************************************************************)
(* The provider on its own: generateParticles(shape, count) as a function  *)
(* of its arguments, in the two versions of the module.                    *)
(***************************************************************************)
\* utils/shapes.ts (PARTICLE_COUNT = 8000) and part_001 (16000).
Versions == {"shapes.ts", "part_001"}

\* A tag for which neither version has a case.
UNKNOWN == "Unknown"

ShapeTags == ShapeType \cup {UNKNOWN}

\* The default of the count parameter.
DefaultCount(version) ==
  IF version = "part_001" THEN 2 * PARTICLE_COUNT ELSE PARTICLE_COUNT

\* The points of the galaxy case of part_001: bulge and spiral arms.
SpiralTable == << <<0, 1000, 0>>, <<15000, 0, 5000>>, <<-30000, 1000, 20000>> >>

\* The points of the default case: (Math.random() - 0.5) * 5 per coordinate.
DefaultTable == << <<25000, -25000, 0>>, <<-10000, 5000, 20000>>, <<0, 0, 0>> >>

\* The switch on the shape tag.
CaseTable(version, shape) ==
  IF shape = SPHERE THEN PointTable(SPHERE)
  ELSE IF shape = GALAXY /\ version = "part_001" THEN SpiralTable
  ELSE DefaultTable

\* A variant that allocates two entries per particle.
NewPositionsShort(count) == [k \in 1 .. (2 * count) |-> 0]

\* new Float32Array(count * 3)
NewPositions(count) == [k \in 1 .. (3 * count) |-> 0]

RECURSIVE FillPositions(_, _, _, _, _)
\* The loop over i < count, from particle i on: three writes per particle.  A
\* write past the end of a typed array is dropped.
FillPositions(buf, i, count, tab, seed) ==
  IF i >= count THEN buf
  ELSE LET pt == tab[((i + seed) % Len(tab)) + 1]
           idx == i * 3
           put(b, k, v) == IF k \in DOMAIN b THEN [b EXCEPT ![k] = v] ELSE b
       IN  FillPositions(put(put(put(buf, idx + 1, pt[1]), idx + 2, pt[2]), idx + 3, pt[3]),
                         i + 1, count, tab, seed)

\* generateParticles(shape, count) of the given version.
generateParticlesOf(version, shape, seed, count) ==
  FillPositions(NewPositions(count), 0, count, CaseTable(version, shape), seed)

\* The earlier App component before its mount: no callback scheduled,
\* animationFrameRef.current = 0, and the id the next requestAnimationFrame
\* returns.
OldConstructed ==
  [phase |-> "constructed", pending |-> {}, ref |-> 0, nextId |-> 1,
   updates |-> 0, fired |-> 0]

\* No call of the provider on its own.
NoCall ==
  [version |-> "shapes.ts", shape |-> GALAXY, seed |-> 0, count |-> 0,
   omitted |-> TRUE, done |-> FALSE, out |-> << >>]

(***************************************************************************)
(* State.                                                                  *)
(***************************************************************************)
VARIABLES
  phase,                \* "constructed", "mounted", "unmounted"
  activeShape,          \* React state activeShape
  hand,                 \* stateRef.current.hand
  explosionActive,      \* stateRef.current.explosionActive
  explosionVelocities,  \* stateRef.current.explosionVelocities
  currentScale,         \* stateRef.current.currentScale
  rotationVelocity,     \* stateRef.current.rotationVelocity
  targets,              \* stateRef.current.targets
  positions,            \* geometry.attributes.position.array
  pointsRef,            \* pointsRef.current is set
  ticks,                \* history: render ticks so far
  shapeChanges,         \* history: shape changes so far
  ended,                \* history: explosions that have died out so far
  age,                  \* history: render ticks run by the latest explosion
                        \* since the trigger that started it
  gen,                  \* a call of the particle provider on its own: its
                        \* arguments and, once it has returned, its result
  earlier,              \* the earlier App component of App.tsx: its phase, the
                        \* animation callbacks scheduled, animationFrameRef
  burst,                \* history: triggers and explosion ends during the
                        \* current unbroken run of hand updates that
                        \* satisfy the clap condition
  last,                 \* history: the last callback and what it did
  smoothed,             \* HandTracker smoothedRef.current
  prevFrame,            \* HandTracker prevFrameRef.current
  now,                  \* the last value of performance.now(), in ms
  frames,               \* history: detection results processed so far
  absentRun,            \* history: length of the current run of results
                        \* with no hands
  run,                  \* history: the current run of two-hand results whose
                        \* wrist distance grows by equal steps
  prevEmitted,          \* history: the signal emitted before the latest one
  seen,                 \* history: the latest detection result processed and
                        \* the time in ms from the stored timestamp to its own
  cam,                  \* HandTracker's progress: "loading" (model and camera
                        \* not ready), "attached" (stream attached, 'loadeddata'
                        \* listener registered, event not fired yet), "looping"
                        \* (predictWebcam scheduled with requestAnimationFrame),
                        \* "dead" (a cycle threw before rescheduling),
                        \* "cancelled" (cancelAnimationFrame in the cleanup),
                        \* "returned" (predictWebcam returned at its guard)
  lastVideoTime         \* lastVideoTime.current

appVars ==
  <<phase, activeShape, hand, explosionActive, explosionVelocities,
    currentScale, rotationVelocity, targets, positions, pointsRef>>

histVars == <<ticks, shapeChanges, ended, age, gen, earlier, burst, last>>

trackerVars ==
  <<smoothed, prevFrame, now, frames, absentRun, run, prevEmitted, seen>>

camVars == <<cam, lastVideoTime>>

vars == <<appVars, histVars, trackerVars, camVars>>

Coords == 1 .. (3 * PARTICLE_COUNT)

Particles == 0 .. (PARTICLE_COUNT - 1)

NeutralHand ==
  [expansion |-> 5000, tension |-> 0, isPresent |-> FALSE, centerX |-> 0,
   centerY |-> 0, rotation |-> 0, twist |-> 0, velocity |-> 0, grabbing |-> FALSE]

\* A slip of the length: one entry per particle instead of three.
ZeroVelocitiesPerParticle == [k \in 1 .. PARTICLE_COUNT |-> 0]

\* new Float32Array(PARTICLE_COUNT * 3)
ZeroVelocities == [k \in Coords |-> 0]

\* The draws of Math.random() (in [0, 1)) of one clap, one per particle: all
\* at the low end, or alternating between the two ends.
ClapDraws ==
  {[i \in Particles |-> 0], [i \in Particles |-> IF i % 2 = 0 THEN 9999 ELSE 0]}

(***************************************************************************)
(* handleHandUpdate                                                        *)
(***************************************************************************)
\* Math.sqrt(x*x + y*y + z*z); coordinates too large to square in 32 bits
\* are measured in a coarser unit k.
Norm3(x, y, z) ==
  LET m == Max2(Abs(x), Max2(Abs(y), Abs(z)))
      k == (m \div 20000) + 1
      xs == RoundDiv(x, k)
      ys == RoundDiv(y, k)
      zs == RoundDiv(z, k)
  IN  k * ISqrt(xs * xs + ys * ys + zs * zs)

\* (c / dist) * force for one coordinate c of a particle at distance dist; a
\* coordinate too large to scale in 32 bits is divided in a coarser unit k.
RadialComponent(c, dist, force) ==
  LET k == (Abs(c) \div 100000) + 1
      unit == RoundDiv(RoundDiv(c, k) * SCALE, Max2(RoundDiv(dist, k), 1))
  IN  MulS(unit, force)

\* const dist = Math.sqrt(...) || 1
ExplosionDist(x, y, z) ==
  LET d == Norm3(x, y, z) IN IF d = 0 THEN SCALE ELSE d

\* CONFIG.explosionForce * (0.7 + Math.random() * 0.6)
ExplosionForceOf(r) == MulS(explosionForce, 7000 + MulS(r, 6000))

\* The loop of the clap branch: rnd[i] is particle i's Math.random().
ExplodeVelocities(pos, rnd) ==
  [k \in Coords |->
     LET i == (k - 1) \div 3
         x == pos[3 * i + 1]
         y == pos[3 * i + 2]
         z == pos[3 * i + 3]
     IN  RadialComponent(pos[k], ExplosionDist(x, y, z), ExplosionForceOf(rnd[i]))]

\* A slip of the comparison: a velocity of exactly 0.4 counts as a clap.
ClapConditionInclusive(data) ==
  data.velocity >= ClapVelocity /\ data.expansion < ClapExpansion

ClapCondition(data) ==
  data.velocity > ClapVelocity /\ data.expansion < ClapExpansion

\* The debounce forgotten: a clap triggers whether or not one is active.
ClapTriggersUndebounced(data) ==
  ClapCondition(data) /\ pointsRef

ClapTriggers(data) ==
  ClapCondition(data) /\ ~explosionActive /\ pointsRef

\* draws: the draws Math.random() may return in the clap branch.
handleHandUpdate(data, draws) ==
  /\ hand' = data
  /\ burst' = IF ClapCondition(data)
              THEN [burst EXCEPT !.triggers = @ + (IF ClapTriggers(data) THEN 1 ELSE 0)]
              ELSE [triggers |-> 0, ended |-> 0]
  /\ IF ClapTriggers(data)
     THEN /\ \E rnd \in draws :
               explosionVelocities' = ExplodeVelocities(positions, rnd)
          /\ explosionActive' = TRUE
          /\ last' = [op |-> "hand", triggered |-> TRUE]
     ELSE /\ UNCHANGED <<explosionVelocities, explosionActive>>
          /\ last' = [op |-> "hand", triggered |-> FALSE]
  /\ age' = IF ClapTriggers(data) /\ ~explosionActive THEN 0 ELSE age
  /\ UNCHANGED <<phase, activeShape, currentScale, rotationVelocity, targets,
                 positions, pointsRef, ticks, shapeChanges, ended, gen, earlier>>

(***************************************************************************)
(* animate: one render tick                                                *)
(***************************************************************************)
\* A variant whose rest value lies above what the hands can ask for at the
\* midpoint.
TargetScaleHighRest(h) ==
  IF h.isPresent THEN 5000 + MulS(h.expansion, 20000) ELSE 16000

\* targetScale and the blend of currentScale towards it.
TargetScale(h) == IF h.isPresent THEN 5000 + MulS(h.expansion, 20000) ELSE RestScale

\* A variant that puts the scale on its target at once.
ScaleStepSnapping(scale, h) == TargetScale(h)

ScaleStep(scale, h) == scale + MulS(TargetScale(h) - scale, gestureResponseSpeed)

\* A variant whose accumulator does not decay.
RotationStepUndamped(rv, h) == IF h.isPresent THEN rv + MulS(h.rotation, 150) ELSE rv

\* The spin accumulator.
RotationStep(rv, h) ==
  IF h.isPresent THEN MulS(rv + MulS(h.rotation, 150), 9200) ELSE MulS(rv, 9200)

TickTension(h) == IF h.isPresent THEN h.tension ELSE 0

\* The target coordinate after the implosion pull.
PulledTarget(t, h) ==
  IF h.grabbing \/ TickTension(h) > 5000
  THEN LET pull == IF h.grabbing THEN 6000 ELSE MulS(TickTension(h) - 5000, 8000)
       IN  MulS(t, SCALE - pull)
  ELSE t

\* One coordinate of one particle while the explosion is active.
ExplodingPosition(p, v, t) ==
  LET p1 == p + v
  IN  p1 + MulS(MulS(t - p1, lerpSpeed), 4000)

\* A variant without the decay.
DecayedVelocityUndamped(v) == v

DecayedVelocity(v) == MulS(v, explosionDecay)

\* A slip of the blend: the step is twice the distance to the target.
MorphPositionOvershooting(p, t, h, r) ==
  p + 2 * (t - p) + MulS(r - 5000, MulS(TickTension(h), 1000))

\* One coordinate of one particle while no explosion is active; r is the
\* coordinate's Math.random().
MorphPosition(p, t, h, r) ==
  p + MulS(t - p, lerpSpeed) + MulS(r - 5000, MulS(TickTension(h), 1000))

\* |vx| + |vy| + |vz| of particle i.
ParticleVel(vel, i) ==
  Abs(vel[3 * i + 1]) + Abs(vel[3 * i + 2]) + Abs(vel[3 * i + 3])

RECURSIVE MaxVelFrom(_, _)
MaxVelFrom(vel, i) ==
  IF i >= PARTICLE_COUNT THEN 0
  ELSE Max2(ParticleVel(vel, i), MaxVelFrom(vel, i + 1))

\* maxVel at the end of the particle loop.
MaxVel(vel) == MaxVelFrom(vel, 0)

\* A slip of the comparison: the explosion also ends at exactly 0.008.
StillActiveStrict(active, maxVel) == active /\ maxVel > DecayThreshold

\* A slip of the threshold: 0.08 for 0.008.
StillActiveCoarse(active, maxVel) == active /\ ~(maxVel < 10 * DecayThreshold)

\* if (state.explosionActive && maxVel < 0.008) state.explosionActive = false
StillActive(active, maxVel) == active /\ ~(maxVel < DecayThreshold)

\* The random draws of one tick, one per coordinate: all at the midpoint, or
\* alternating between the two ends of [0, 1).
JitterDraws ==
  {[k \in Coords |-> 5000], [k \in Coords |-> IF k % 2 = 0 THEN 0 ELSE 9999]}

\* The whole of one call of animate on the given state: the new values of
\* everything it writes.
Tick(pos, tgt, vel, active, scale, rv, h, rnd) ==
  LET newVel == IF active THEN [k \in Coords |-> DecayedVelocity(vel[k])] ELSE vel
      newPos == [k \in Coords |->
                   IF active
                   THEN ExplodingPosition(pos[k], vel[k], PulledTarget(tgt[k], h))
                   ELSE MorphPosition(pos[k], PulledTarget(tgt[k], h), h, rnd[k])]
  IN  [positions |-> newPos,
       explosionVelocities |-> newVel,
       explosionActive |-> StillActive(active, MaxVel(newVel)),
       currentScale |-> ScaleStep(scale, h),
       rotationVelocity |-> RotationStep(rv, h)]

(***************************************************************************)
(* Actions                                                                 *)
(***************************************************************************)
Init ==
  /\ phase = "constructed"
  /\ activeShape = GALAXY
  /\ hand = NeutralHand
  /\ explosionActive = FALSE
  /\ explosionVelocities = ZeroVelocities
  /\ currentScale = RestScale
  /\ rotationVelocity = 0
  /\ targets \in {generateParticles(GALAXY, s) : s \in Seeds}
  /\ positions = << >>
  /\ pointsRef = FALSE
  /\ ticks = 0
  /\ shapeChanges = 0
  /\ ended = 0
  /\ age = 0
  /\ gen = NoCall
  /\ earlier = OldConstructed
  /\ burst = [triggers |-> 0, ended |-> 0]
  /\ last = [op |-> "init", triggered |-> FALSE]
  /\ smoothed = [expansion |-> 5000, tension |-> 0, centerX |-> 0, centerY |-> 0,
                 rotation |-> 0, twist |-> 0, velocity |-> 0]
  /\ prevFrame = [centerX |-> 0, centerY |-> 0, timestamp |-> 0, hand1Y |-> 0, hand2Y |-> 0]
  /\ now = 0
  /\ frames = 0
  /\ absentRun = 0
  /\ run = [len |-> 0, dist |-> 0, inc |-> 0, below |-> FALSE]
  /\ prevEmitted = NeutralHand
  /\ seen = [results |-> << >>, dt |-> 0]
  /\ cam = "loading"
  /\ lastVideoTime = -1

\* The effects of the first commit, in their order in App: the shape effect
\* (a fresh targets cloud), then the setup effect, which builds the geometry
\* from another draw (the first cloud here, so that the two draws agree in one
\* case and differ in the other), publishes pointsRef and calls animate() once.
Mount ==
  /\ phase = "constructed"
  /\ \E st \in Seeds :
       LET tgt == generateParticles(activeShape, st)
           pos == generateParticles(GALAXY, 0)
           t == Tick(pos, tgt, explosionVelocities, explosionActive, currentScale,
                     rotationVelocity, hand, [k \in Coords |-> 0])
       IN  /\ targets' = tgt
           /\ positions' = t.positions
           /\ explosionVelocities' = t.explosionVelocities
           /\ explosionActive' = t.explosionActive
           /\ currentScale' = t.currentScale
           /\ rotationVelocity' = t.rotationVelocity
  /\ phase' = "mounted"
  /\ pointsRef' = TRUE
  /\ ticks' = ticks + 1
  /\ last' = [op |-> "mount", triggered |-> FALSE]
  /\ UNCHANGED <<activeShape, hand, shapeChanges, ended, age, gen, earlier, burst>>
  /\ UNCHANGED <<trackerVars, camVars>>

\* Unmounting App and, with it, HandTracker: the cleanup of the setup effect
\* (cancelAnimationFrame(animationId), pointsRef.current = null) and the
\* cleanups of HandTracker (cancelAnimationFrame(requestRef.current) when a
\* cycle is scheduled; the 'loadeddata' listener stays registered).
Unmount ==
  /\ phase = "mounted"
  /\ phase' = "unmounted"
  /\ pointsRef' = FALSE
  /\ cam' = IF cam = "looping" THEN "cancelled" ELSE cam
  /\ last' = [op |-> "unmount", triggered |-> FALSE]
  /\ UNCHANGED <<activeShape, hand, explosionActive, explosionVelocities, currentScale,
                 rotationVelocity, targets, positions, ticks, shapeChanges, ended,
                 age, gen, earlier, burst>>
  /\ UNCHANGED <<trackerVars, lastVideoTime>>

\* A variant whose tick reads the signal of the update before the latest one.
AnimateWithStale(maxTicks, draws) ==
  /\ phase = "mounted"
  /\ ticks < maxTicks
  /\ \E rnd \in draws :
       LET t == Tick(positions, targets, explosionVelocities, explosionActive,
                     currentScale, rotationVelocity, prevEmitted, rnd)
       IN  /\ positions' = t.positions
           /\ explosionVelocities' = t.explosionVelocities
           /\ explosionActive' = t.explosionActive
           /\ currentScale' = t.currentScale
           /\ rotationVelocity' = t.rotationVelocity
           /\ ended' = IF explosionActive /\ ~t.explosionActive THEN ended + 1 ELSE ended
           /\ burst' = IF explosionActive /\ ~t.explosionActive /\ ClapCondition(hand)
                       THEN [burst EXCEPT !.ended = @ + 1]
                       ELSE burst
  /\ ticks' = ticks + 1
  /\ age' = IF explosionActive THEN age + 1 ELSE age
  /\ last' = [op |-> "tick", triggered |-> FALSE]
  /\ UNCHANGED <<phase, activeShape, hand, targets, pointsRef, shapeChanges, gen, earlier>>
  /\ UNCHANGED <<trackerVars, camVars>>

\* A variant that writes the pulled coordinates back into the targets.
AnimateWithRelocating(maxTicks, draws) ==
  /\ phase = "mounted"
  /\ ticks < maxTicks
  /\ \E rnd \in draws :
       LET t == Tick(positions, targets, explosionVelocities, explosionActive,
                     currentScale, rotationVelocity, hand, rnd)
       IN  /\ positions' = t.positions
           /\ explosionVelocities' = t.explosionVelocities
           /\ explosionActive' = t.explosionActive
           /\ currentScale' = t.currentScale
           /\ rotationVelocity' = t.rotationVelocity
           /\ ended' = IF explosionActive /\ ~t.explosionActive THEN ended + 1 ELSE ended
           /\ burst' = IF explosionActive /\ ~t.explosionActive /\ ClapCondition(hand)
                       THEN [burst EXCEPT !.ended = @ + 1]
                       ELSE burst
  /\ ticks' = ticks + 1
  /\ age' = IF explosionActive THEN age + 1 ELSE age
  /\ last' = [op |-> "tick", triggered |-> FALSE]
  /\ targets' = [k \in Coords |-> PulledTarget(targets[k], hand)]
  /\ UNCHANGED <<phase, activeShape, hand, pointsRef, shapeChanges, gen, earlier>>
  /\ UNCHANGED <<trackerVars, camVars>>

\* One render tick, at most maxTicks of them; draws are the tick's jitter draws.
AnimateWith(maxTicks, draws) ==
  /\ phase = "mounted"
  /\ ticks < maxTicks
  /\ \E rnd \in draws :
       LET t == Tick(positions, targets, explosionVelocities, explosionActive,
                     currentScale, rotationVelocity, hand, rnd)
       IN  /\ positions' = t.positions
           /\ explosionVelocities' = t.explosionVelocities
           /\ explosionActive' = t.explosionActive
           /\ currentScale' = t.currentScale
           /\ rotationVelocity' = t.rotationVelocity
           /\ ended' = IF explosionActive /\ ~t.explosionActive THEN ended + 1 ELSE ended
           /\ burst' = IF explosionActive /\ ~t.explosionActive /\ ClapCondition(hand)
                       THEN [burst EXCEPT !.ended = @ + 1]
                       ELSE burst
  /\ ticks' = ticks + 1
  /\ age' = IF explosionActive THEN age + 1 ELSE age
  /\ last' = [op |-> "tick", triggered |-> FALSE]
  /\ UNCHANGED <<phase, activeShape, hand, targets, pointsRef, shapeChanges, gen, earlier>>
  /\ UNCHANGED <<trackerVars, camVars>>

\* A variant that also restarts the particles on the new cloud and drops the
\* explosion.
ShapeChangeResetting ==
  /\ phase = "mounted"
  /\ shapeChanges < MaxShapeChanges
  /\ \E shape \in ShapeType \ {activeShape}, s \in Seeds :
       /\ activeShape' = shape
       /\ targets' = generateParticles(shape, s)
  /\ positions' = targets'
  /\ explosionActive' = FALSE
  /\ shapeChanges' = shapeChanges + 1
  /\ last' = [op |-> "shape", triggered |-> FALSE]
  /\ UNCHANGED <<phase, hand, explosionVelocities, currentScale,
                 rotationVelocity, pointsRef, ticks, ended, age, gen, earlier,
                 burst>>
  /\ UNCHANGED <<trackerVars, camVars>>

\* setActiveShape(shape) and the shape effect that follows it.
ShapeChange ==
  /\ phase = "mounted"
  /\ shapeChanges < MaxShapeChanges
  /\ \E shape \in ShapeType \ {activeShape}, s \in Seeds :
       /\ activeShape' = shape
       /\ targets' = generateParticles(shape, s)
  /\ shapeChanges' = shapeChanges + 1
  /\ last' = [op |-> "shape", triggered |-> FALSE]
  /\ UNCHANGED <<phase, hand, explosionActive, explosionVelocities, currentScale,
                 rotationVelocity, positions, pointsRef, ticks, ended, age, gen, earlier,
                 burst>>
  /\ UNCHANGED <<trackerVars, camVars>>

(***************************************************************************)
(* Signals delivered to handleHandUpdate when the extractor is not part of *)
(* the specification.                                                      *)
(***************************************************************************)
Signal(e, t, p, r, v, g) ==
  [expansion |-> e, tension |-> t, isPresent |-> p, centerX |-> 0, centerY |-> 0,
   rotation |-> r, twist |-> 0, velocity |-> v, grabbing |-> g]

ClapSignal == Signal(1000, 0, TRUE, 0, 9000, FALSE)

StillSignal == Signal(1000, 0, TRUE, 0, 1000, FALSE)

Signals ==
  {NeutralHand, ClapSignal,
   Signal(1000, 0, TRUE, 0, 4000, FALSE),       \* velocity exactly 0.4
   Signal(2500, 0, TRUE, 0, 9000, FALSE),       \* expansion exactly 0.25
   Signal(2500, 9000, TRUE, 10000, 0, TRUE),    \* two fists, turning
   Signal(1000, 7500, TRUE, -5000, 2000, FALSE)} \* tense, not grabbing

HandUpdate ==
  /\ \E data \in Signals : handleHandUpdate(data, ClapDraws)
  /\ UNCHANGED <<trackerVars, camVars>>

Animate == AnimateWith(MaxTicks, JitterDraws)

Next == Mount \/ Unmount \/ HandUpdate \/ Animate \/ ShapeChange

Spec == Init /\ [][Next]_vars

(***************************************************************************)
(* The long horizon: one sustained gesture, followed tick by tick until    *)
(* the explosion has died out and beyond.                                  *)
(***************************************************************************)
DecaySignals == {ClapSignal, StillSignal}

\* The draws of a clap in the long horizon: the weakest force, or the middle
\* one (force 2.0), whose decay passes through the threshold 0.008 exactly.
DecayDraws == {[i \in Particles |-> 0], [i \in Particles |-> 5000]}

HandUpdateDecay ==
  /\ \E data \in DecaySignals : handleHandUpdate(data, DecayDraws)
  /\ UNCHANGED <<trackerVars, camVars>>

AnimateDecay ==
  /\ hand = NeutralHand => ticks < MaxIdleTicks
  /\ AnimateWith(MaxDecayTicks, {[k \in Coords |-> 5000]})

\* Shape changes are explored once an explosion has run its course.
ShapeChangeDecay ==
  /\ ended > 0
  /\ ShapeChange

NextDecay == Mount \/ HandUpdateDecay \/ AnimateDecay \/ ShapeChangeDecay

SpecDecay == Init /\ [][NextDecay]_vars

(***************************************************************************)
(* HandTracker: processResults.  A detection result is a sequence of zero  *)
(* to two hands; a hand is its wrist (landmark 0) and its five fingertips  *)
(* (landmarks 4, 8, 12, 16, 20), each a point <<x, y>> of [0, 1] x [0, 1]. *)
(***************************************************************************)
\* Smoothing helper: current + (target - current) * speed.
lerp(current, target, speed) == current + MulS(target - current, speed)

smoothingSpeed == 1500

Clamp(lo, hi, x) == Max2(lo, Min2(hi, x))

\* Math.sqrt(Math.pow(p.x - q.x, 2) + Math.pow(p.y - q.y, 2))
Dist2(p, q) == ISqrt((p[1] - q[1]) * (p[1] - q[1]) + (p[2] - q[2]) * (p[2] - q[2]))

\* The blend rates of the rotation and the twist on a result with hands.
RotationSpeed == MulS(smoothingSpeed, 5000)

TwistSpeed == MulS(smoothingSpeed, 3000)

\* The blend rate of each decaying field on a result without hands.
AbsentRate ==
  [expansion |-> 500, tension |-> 500, rotation |-> 500, twist |-> 500,
   velocity |-> 1000]

\* The blend rate of each of those fields on a result with hands.
PresentRate ==
  [expansion |-> smoothingSpeed, tension |-> smoothingSpeed,
   rotation |-> RotationSpeed, twist |-> TwistSpeed, velocity |-> 3000]

\* A variant whose expansion decays to 0 instead of the neutral 0.5.
AbsentDecayToZero(sm) ==
  [sm EXCEPT !.expansion = lerp(@, 0, 500),
             !.tension = lerp(@, 0, 500),
             !.rotation = lerp(@, 0, 500),
             !.twist = lerp(@, 0, 500),
             !.velocity = lerp(@, 0, 1000)]

\* A variant that decays at the rates of a result with hands.
AbsentDecayAtPresentRate(sm) ==
  [sm EXCEPT !.expansion = lerp(@, 5000, PresentRate.expansion),
             !.tension = lerp(@, 0, PresentRate.tension),
             !.rotation = lerp(@, 0, PresentRate.rotation),
             !.twist = lerp(@, 0, PresentRate.twist),
             !.velocity = lerp(@, 0, PresentRate.velocity)]

\* The decay of the smoothed values when no hands are present.
AbsentDecay(sm) ==
  [sm EXCEPT !.expansion = lerp(@, 5000, AbsentRate.expansion),
             !.tension = lerp(@, 0, AbsentRate.tension),
             !.rotation = lerp(@, 0, AbsentRate.rotation),
             !.twist = lerp(@, 0, AbsentRate.twist),
             !.velocity = lerp(@, 0, AbsentRate.velocity)]

\* A variant that keeps the grab flag of the signal emitted before.
AbsentSignalStale(sm) ==
  [expansion |-> sm.expansion, tension |-> sm.tension, isPresent |-> FALSE,
   centerX |-> sm.centerX, centerY |-> sm.centerY, rotation |-> sm.rotation,
   twist |-> sm.twist, velocity |-> sm.velocity, grabbing |-> hand.grabbing]

\* A variant that emits a recentred signal.
AbsentSignalRecentred(sm) ==
  [expansion |-> sm.expansion, tension |-> sm.tension, isPresent |-> FALSE,
   centerX |-> 0, centerY |-> 0, rotation |-> sm.rotation,
   twist |-> sm.twist, velocity |-> sm.velocity, grabbing |-> FALSE]

\* The signal emitted for a result without hands.
AbsentSignal(sm) ==
  [expansion |-> sm.expansion, tension |-> sm.tension, isPresent |-> FALSE,
   centerX |-> sm.centerX, centerY |-> sm.centerY, rotation |-> sm.rotation,
   twist |-> sm.twist, velocity |-> sm.velocity, grabbing |-> FALSE]

\* A variant without the upper clamp.
ExpansionOfUnbounded(dist) == Max2(0, MulS(dist - 1000, 15000))

\* rawExpansion = Math.max(0, Math.min(1, (dist - 0.1) * 1.5))
ExpansionOf(dist) == Clamp(0, SCALE, MulS(dist - 1000, 15000))

\* A variant whose expansion for fewer than two hands is 0.
RawExpansionClosed(results) ==
  IF Len(results) = 2 THEN ExpansionOf(Dist2(results[1].w, results[2].w)) ELSE 0

RawExpansion(results) ==
  IF Len(results) = 2 THEN ExpansionOf(Dist2(results[1].w, results[2].w)) ELSE 5000

Hand1YVel(results, pf) == results[1].w[2] - pf.hand1Y

Hand2YVel(results, pf) == results[2].w[2] - pf.hand2Y

RawRotation(results, pf) ==
  IF Len(results) = 2 /\ Sign(Hand1YVel(results, pf)) # Sign(Hand2YVel(results, pf))
  THEN Clamp(-SCALE, SCALE, (Hand2YVel(results, pf) - Hand1YVel(results, pf)) * 10)
  ELSE 0

\* hand1XVel is taken against the stored (mirrored) centre, as in the source.
RawTwist(results, pf) ==
  IF Len(results) = 2
  THEN LET hand1XVel == results[1].w[1] - pf.centerX
           twistIndicator == Abs(Hand1YVel(results, pf) - Hand2YVel(results, pf))
                               + Abs(hand1XVel)
       IN  Min2(SCALE, twistIndicator * 5)
  ELSE 0

\* Per hand: 1 - clamp((avgDist - 0.12) * 5), avgDist the mean fingertip
\* distance from the wrist.
HandTension(h) ==
  LET total == Dist2(h.tips[1], h.w) + Dist2(h.tips[2], h.w) + Dist2(h.tips[3], h.w)
                 + Dist2(h.tips[4], h.w) + Dist2(h.tips[5], h.w)
      avgDist == RoundDiv(total, 5)
  IN  SCALE - Clamp(0, SCALE, (avgDist - 1200) * 5)

RECURSIVE SumOver(_, _, _)
\* The sum of f[i] over i in lo..hi.
SumOver(f, lo, hi) == IF lo > hi THEN 0 ELSE f[lo] + SumOver(f, lo + 1, hi)

RawTension(results) ==
  RoundDiv(SumOver([i \in 1 .. Len(results) |-> HandTension(results[i])], 1, Len(results)),
           Len(results))

\* A variant that counts a hand at the threshold itself as grabbing.
GrabbingInclusive(results) ==
  /\ Len(results) = 2
  /\ \A i \in 1 .. Len(results) : HandTension(results[i]) >= 6000

\* totalGrabbing === results.landmarks.length && results.landmarks.length === 2
Grabbing(results) ==
  /\ Len(results) = 2
  /\ \A i \in 1 .. Len(results) : HandTension(results[i]) > 6000

\* The mean of the wrists, in landmark space.
WristCentre(results) ==
  << RoundDiv(SumOver([i \in 1 .. Len(results) |-> results[i].w[1]], 1, Len(results)),
              Len(results)),
     RoundDiv(SumOver([i \in 1 .. Len(results) |-> results[i].w[2]], 1, Len(results)),
              Len(results)) >>

\* A variant without the upper limit on the elapsed time.
VelocityMeasuredAnyGap(timestamp, pf) == timestamp - pf.timestamp > 0

\* Whether this result updates the smoothed velocity: 0 < dt < 0.5 s.
VelocityMeasured(timestamp, pf) ==
  timestamp - pf.timestamp > 0 /\ timestamp - pf.timestamp < 500

\* A variant that caps the velocity at 2 instead of 1.
ClampedVelocityLoose(results, timestamp, pf) ==
  LET c == WristCentre(results)
      dx == c[1] - pf.centerX
      dy == c[2] - pf.centerY
      rawVelocity == RoundDiv(ISqrt(dx * dx + dy * dy) * 1000, timestamp - pf.timestamp)
  IN  Min2(2 * SCALE, rawVelocity * 2)

\* Math.min(1, rawVelocity * 2), rawVelocity the displacement of the centre
\* from the stored previous centre over dt seconds.
ClampedVelocity(results, timestamp, pf) ==
  LET c == WristCentre(results)
      dx == c[1] - pf.centerX
      dy == c[2] - pf.centerY
      rawVelocity == RoundDiv(ISqrt(dx * dx + dy * dy) * 1000, timestamp - pf.timestamp)
  IN  Min2(SCALE, rawVelocity * 2)

\* Mirror X for intuitive control.
MirrorX(cx) == (SCALE - cx) * 2 - SCALE

MirrorY(cy) == -((SCALE - cy) * 2 - SCALE)

\* smoothedRef after a result with hands.
PresentSmoothed(sm, pf, results, timestamp) ==
  LET c == WristCentre(results)
  IN  [expansion |-> lerp(sm.expansion, RawExpansion(results), PresentRate.expansion),
       tension |-> lerp(sm.tension, RawTension(results), PresentRate.tension),
       centerX |-> lerp(sm.centerX, MirrorX(c[1]), smoothingSpeed),
       centerY |-> lerp(sm.centerY, MirrorY(c[2]), smoothingSpeed),
       rotation |-> lerp(sm.rotation, RawRotation(results, pf), PresentRate.rotation),
       twist |-> lerp(sm.twist, RawTwist(results, pf), PresentRate.twist),
       velocity |-> IF VelocityMeasured(timestamp, pf)
                    THEN lerp(sm.velocity, ClampedVelocity(results, timestamp, pf),
                              PresentRate.velocity)
                    ELSE sm.velocity]

\* prevFrameRef after a result with hands.
PresentPrevFrame(pf, results, timestamp) ==
  LET c == WristCentre(results)
  IN  [centerX |-> MirrorX(c[1]),
       centerY |-> MirrorY(c[2]),
       timestamp |-> timestamp,
       hand1Y |-> IF Len(results) = 2 THEN results[1].w[2] ELSE pf.hand1Y,
       hand2Y |-> IF Len(results) = 2 THEN results[2].w[2] ELSE pf.hand2Y]

\* The signal emitted for a result with hands.
PresentSignal(sm, results) ==
  [expansion |-> sm.expansion, tension |-> sm.tension, isPresent |-> TRUE,
   centerX |-> sm.centerX, centerY |-> sm.centerY, rotation |-> sm.rotation,
   twist |-> sm.twist, velocity |-> sm.velocity, grabbing |-> Grabbing(results)]

\* The history of runs of two-hand results with a linearly growing wrist
\* distance: len results so far, the last distance and step, and whether the
\* smoothed expansion was at most the raw one when the latest result came in.
RunAfter(r, sm, results) ==
  IF Len(results) # 2 THEN [len |-> 0, dist |-> 0, inc |-> 0, below |-> FALSE]
  ELSE LET d == Dist2(results[1].w, results[2].w)
           b == sm.expansion <= ExpansionOf(d)
       IN  IF r.len >= 1 /\ d > r.dist
           THEN [len |-> IF r.len = 1 \/ Abs(d - r.dist - r.inc) <= 1 THEN r.len + 1 ELSE 2,
                 dist |-> d, inc |-> d - r.dist, below |-> b]
           ELSE [len |-> 1, dist |-> d, inc |-> 0, below |-> b]

\* processResults(results, timestamp), the call of onHandUpdate included.
processResults(results, timestamp) ==
  /\ IF Len(results) = 0
     THEN /\ smoothed' = AbsentDecay(smoothed)
          /\ prevFrame' = prevFrame
          /\ handleHandUpdate(AbsentSignal(smoothed'), ClapDraws)
     ELSE /\ smoothed' = PresentSmoothed(smoothed, prevFrame, results, timestamp)
          /\ prevFrame' = PresentPrevFrame(prevFrame, results, timestamp)
          /\ handleHandUpdate(PresentSignal(smoothed', results), ClapDraws)
  /\ frames' = frames + 1
  /\ absentRun' = IF Len(results) = 0 THEN absentRun + 1 ELSE 0
  /\ run' = RunAfter(run, smoothed, results)
  /\ prevEmitted' = hand
  /\ seen' = [results |-> results, dt |-> timestamp - prevFrame.timestamp]

(***************************************************************************)
(* The detection results explored.                                         *)
(***************************************************************************)
Tips(p) == [j \in 1 .. 5 |-> p]

\* A fist in the corner (0, 0).
HandA == [w |-> <<0, 0>>, tips |-> Tips(<<0, 0>>)]

\* An open hand in the opposite corner, its fingertips as far as they go.
HandB == [w |-> <<10000, 10000>>, tips |-> Tips(<<0, 0>>)]

\* A hand whose tension is exactly the grab threshold 0.6.
HandC == [w |-> <<3333, 0>>, tips |-> Tips(<<3333, 2000>>)]

\* A nearly closed hand, its fingertips at different distances.
HandD ==
  [w |-> <<6667, 0>>,
   tips |-> << <<6667, 1000>>, <<6667, 2000>>, <<6667, 3000>>, <<7667, 0>>, <<6667, 0>> >>]

Results ==
  { << >>, <<HandB>>,
    <<HandA, HandA>>, <<HandA, HandC>>, <<HandA, HandD>>, <<HandA, HandB>>,
    <<HandB, HandA>> }

\* The time between two calls of predictWebcam, in ms.
ClockSteps == {0, 16, 600}

\* One detection cycle on a fresh video frame: performance.now(), then
\* processResults.
ProcessFrame ==
  /\ phase = "mounted"
  /\ frames < MaxFrames
  /\ \E results \in Results, step \in ClockSteps :
       /\ now' = now + step
       /\ processResults(results, now + step)
  /\ UNCHANGED camVars

NextX == Mount \/ ProcessFrame

SpecX == Init /\ [][NextX]_vars

\* The long horizon of the extractor: results with hands at the frame rate,
\* then a long run of results without any.
LongResults == {<<HandA, HandA>>, <<HandA, HandB>>, <<HandB, HandA>>}

ProcessPresent ==
  /\ phase = "mounted"
  /\ absentRun = 0
  /\ frames < MaxPresentFrames
  /\ \E results \in LongResults :
       /\ now' = now + 16
       /\ processResults(results, now + 16)
  /\ UNCHANGED camVars

ProcessAbsent ==
  /\ phase = "mounted"
  /\ absentRun < MaxAbsentRun
  /\ now' = now + 16
  /\ processResults(<< >>, now + 16)
  /\ UNCHANGED camVars

NextXLong == Mount \/ ProcessPresent \/ ProcessAbsent

SpecXLong == Init /\ [][NextXLong]_vars

(***************************************************************************)
(* The whole system: App with its render ticks, and HandTracker from its   *)
(* startup through the cycles of predictWebcam to the teardown.            *)
(***************************************************************************)
\* Everything of App that no extractor step without a signal touches.
engineVars == <<appVars, ticks, shapeChanges, ended, age, gen, earlier, burst>>

\* initHandLandmarker and startWebcam have run: the stream is attached and
\* predictWebcam is registered for the video's 'loadeddata' event.
TrackerReady ==
  /\ phase = "mounted"
  /\ cam = "loading"
  /\ cam' = "attached"
  /\ last' = [op |-> "ready", triggered |-> FALSE]
  /\ UNCHANGED <<engineVars, trackerVars, lastVideoTime>>

SysResults == {<< >>, <<HandB>>, <<HandA, HandA>>, <<HandB, HandA>>}

\* What detectForVideo does on a fresh frame: it returns hands ("ok"), returns
\* an object without a landmarks list ("nolist"), throws ("throws"), or
\* returns hands that lack the wrist ("nowrist") or a fingertip ("notip").
Detections ==
  {[kind |-> "ok", hands |-> r] : r \in SysResults}
    \cup {[kind |-> "nolist", hands |-> << >>], [kind |-> "throws", hands |-> << >>]}
    \cup {[kind |-> k, hands |-> r] : k \in {"nowrist", "notip"},
                                      r \in {<<HandB>>, <<HandB, HandA>>}}

\* video.currentTime as the next cycle may find it: where the last processed
\* cycle left it, or advanced.
VideoTimes == {Max2(lastVideoTime, 0), lastVideoTime + 1}

\* A variant that takes a stalled video for a frame without hands.
StalledCycleAsAbsent ==
  /\ frames < MaxFrames
  /\ cam' = "looping"
  /\ now' = now + 16
  /\ processResults(<< >>, now + 16)
  /\ UNCHANGED lastVideoTime

\* predictWebcam when video.currentTime equals lastVideoTime: nothing but the
\* next requestAnimationFrame.  The time that passes is part of the clock
\* step of the next processed cycle.
StalledCycle ==
  /\ cam' = "looping"
  /\ last' = [op |-> "stalled", triggered |-> FALSE]
  /\ UNCHANGED <<engineVars, trackerVars, lastVideoTime>>

\* A cycle whose detection throws, or whose processResults throws on reading
\* .x of a missing landmark: the exception leaves predictWebcam before
\* requestAnimationFrame, so no further cycle is scheduled.  With two hands
\* that have their wrists, prevFrame.hand1Y and hand2Y have been written
\* before the fingertips are read.
ThrowingCycle(videoTime, det) ==
  /\ lastVideoTime' = videoTime
  /\ cam' = "dead"
  /\ last' = [op |-> "threw", triggered |-> FALSE]
  /\ prevFrame' = IF det.kind = "notip" /\ Len(det.hands) = 2
                  THEN [prevFrame EXCEPT !.hand1Y = det.hands[1].w[2],
                                         !.hand2Y = det.hands[2].w[2]]
                  ELSE prevFrame
  /\ UNCHANGED <<engineVars, smoothed, now, frames, absentRun, run, prevEmitted, seen>>

\* A cycle on a fresh frame whose detection returns: processResults, then the
\* next requestAnimationFrame.  A result without a landmarks list takes the
\* branch of a result without hands.
ProcessingCycle(videoTime, det) ==
  /\ frames < MaxFrames
  /\ lastVideoTime' = videoTime
  /\ cam' = "looping"
  /\ now' = now + 16
  /\ processResults(det.hands, now + 16)

\* The body of predictWebcam past its guard.
predictWebcam(videoTime, det) ==
  IF videoTime = lastVideoTime
  THEN StalledCycle
  ELSE IF det.kind \in {"ok", "nolist"}
       THEN ProcessingCycle(videoTime, det)
       ELSE ThrowingCycle(videoTime, det)

\* The video's 'loadeddata' event calls predictWebcam for the first time.
\* After the unmount videoRef.current is null and the call returns at the
\* guard.
LoadedData ==
  /\ cam = "attached"
  /\ IF phase = "mounted"
     THEN \E videoTime \in VideoTimes, det \in Detections : predictWebcam(videoTime, det)
     ELSE /\ cam' = "returned"
          /\ last' = [op |-> "guard", triggered |-> FALSE]
          /\ UNCHANGED <<engineVars, trackerVars, lastVideoTime>>

\* A scheduled call of predictWebcam.
PredictWebcam ==
  /\ cam = "looping"
  /\ \E videoTime \in VideoTimes, det \in Detections : predictWebcam(videoTime, det)

AnimateSys == AnimateWith(MaxTicks, {[k \in Coords |-> 5000]})

NextSys == Mount \/ Unmount \/ TrackerReady \/ LoadedData \/ PredictWebcam \/ AnimateSys

SpecSys == Init /\ [][NextSys]_vars

(***************************************************************************)
(* The shape effect with a provider that may return a buffer for another   *)
(* particle count: generateParticles(shape, count) allocates count * 3     *)
(* entries, and the shape effect installs whatever it is given.            *)
(***************************************************************************)
generateParticlesCount(shape, seed, count) ==
  [k \in 1 .. (3 * count) |->
     LET i == (k - 1) \div 3
         a == ((k - 1) % 3) + 1
         tab == PointTable(shape)
     IN  tab[((i + seed) % Len(tab)) + 1][a]]

\* What the provider may hand to the shape effect: a cloud of the right
\* length, or one for a particle more.
ProviderBuffers(shape) ==
  {generateParticles(shape, s) : s \in Seeds}
    \cup {generateParticlesCount(shape, 0, PARTICLE_COUNT + 1)}

\* stateRef.current.targets = <the provider's buffer>
ShapeEffect ==
  /\ phase = "mounted"
  /\ shapeChanges < MaxShapeChanges
  /\ \E shape \in ShapeType \ {activeShape} :
       \E buffer \in ProviderBuffers(shape) :
         /\ activeShape' = shape
         /\ targets' = buffer
  /\ shapeChanges' = shapeChanges + 1
  /\ last' = [op |-> "shape", triggered |-> FALSE]
  /\ UNCHANGED <<phase, hand, explosionActive, explosionVelocities, currentScale,
                 rotationVelocity, positions, pointsRef, ticks, ended, age, gen, earlier,
                 burst>>
  /\ UNCHANGED <<trackerVars, camVars>>

NextProvider == Mount \/ HandUpdate \/ Animate \/ ShapeEffect

SpecProvider == Init /\ [][NextProvider]_vars

(***************************************************************************)
(* The long horizon of the morph: no explosion, a relaxed or absent hand,  *)
(* and render ticks until the particles have settled on their targets.     *)
(***************************************************************************)
\* Hands present, open and apart, turning slowly.
QuietSignal == Signal(3000, 0, TRUE, 5000, 0, FALSE)

\* Hands present at the midpoint of the expansion, turning at full rate.
SpinSignal == Signal(5000, 0, TRUE, 10000, 0, FALSE)

MorphSignals == {NeutralHand, QuietSignal, SpinSignal}

\* Hand updates and shape changes are explored during the first ticks.
HandUpdateMorph ==
  /\ ticks <= MaxIdleTicks
  /\ \E data \in MorphSignals : handleHandUpdate(data, ClapDraws)
  /\ UNCHANGED <<trackerVars, camVars>>

ShapeChangeMorph ==
  /\ ticks <= MaxIdleTicks
  /\ ShapeChange

AnimateMorph == AnimateWith(MaxMorphTicks, {[k \in Coords |-> 5000]})

NextMorph == Mount \/ HandUpdateMorph \/ ShapeChangeMorph \/ AnimateMorph

SpecMorph == Init /\ [][NextMorph]_vars

(***************************************************************************)
(* Properties of the clap trigger and of the explosion's life.             *)
(***************************************************************************)
Origin(pos, i) == pos[3 * i + 1] = 0 /\ pos[3 * i + 2] = 0 /\ pos[3 * i + 3] = 0

ZeroVelocity(vel, i) == vel[3 * i + 1] = 0 /\ vel[3 * i + 2] = 0 /\ vel[3 * i + 3] = 0

\* vel's particle i points along pos's particle i: no component against the
\* position's, and the two vectors parallel up to the rounding of a product.
Radial(pos, vel, i) ==
  /\ \A a \in 1 .. 3 : Sign(vel[3 * i + a]) = Sign(pos[3 * i + a])
  /\ \A a, b \in 1 .. 3 :
       Abs(vel[3 * i + a] * pos[3 * i + b] - vel[3 * i + b] * pos[3 * i + a])
         <= 2 * (Abs(pos[3 * i + a]) + Abs(pos[3 * i + b]))

\* C1: a hand update starts an explosion (explosionActive goes from false to
\* true, the velocities are assigned) exactly when the delivered signal has
\* velocity > 0.4 and expansion < 0.25, no explosion is active and the
\* particle system exists; explosionActive is true right after it.
C1_TriggerIff ==
  [][last'.op = "hand" =>
       LET cond == /\ hand'.velocity > ClapVelocity
                   /\ hand'.expansion < ClapExpansion
                   /\ ~explosionActive
                   /\ pointsRef
       IN  /\ (~explosionActive /\ explosionActive') <=> cond
           /\ last'.triggered <=> cond
           /\ ~cond => explosionVelocities' = explosionVelocities
                         /\ explosionActive' = explosionActive]_vars

C1_Witness ==
  /\ last.op = "hand" /\ last.triggered
  /\ explosionActive /\ phase = "mounted"
  /\ \E i \in Particles : ~ZeroVelocity(explosionVelocities, i)

\* C2: right after a trigger every particle has a non-zero explosion
\* velocity, radial for a particle away from the origin (the positions are
\* still those the trigger read).
C2_EveryParticleMoves ==
  (last.op = "hand" /\ last.triggered) =>
    \A i \in Particles :
      /\ ~ZeroVelocity(explosionVelocities, i)
      /\ ~Origin(positions, i) => Radial(positions, explosionVelocities, i)

\* C3: while an explosion is active, a hand update whose signal satisfies
\* the clap condition changes neither explosionVelocities nor explosionActive.
C3_NoRetriggerWhileActive ==
  [][(last'.op = "hand" /\ explosionActive
        /\ hand'.velocity > ClapVelocity /\ hand'.expansion < ClapExpansion)
       => /\ explosionVelocities' = explosionVelocities
          /\ explosionActive' = explosionActive]_vars

C3_Witness ==
  /\ last.op = "hand" /\ ~last.triggered /\ explosionActive
  /\ hand.velocity > ClapVelocity /\ hand.expansion < ClapExpansion
  /\ ticks >= 2

\* C4: on a render tick with an explosion active, explosionActive stays true
\* exactly when the largest |vx|+|vy|+|vz| left at the end of the tick is not
\* below 0.008; and explosionActive goes from false to true only in a hand
\* update whose signal satisfies the clap condition, so that no render tick
\* and no shape change revives an explosion that has died out.
C4_ActiveUntilDecayed ==
  [][/\ (last'.op = "tick" /\ explosionActive)
          => (explosionActive' <=> MaxVel(explosionVelocities') >= DecayThreshold)
     /\ (~explosionActive /\ explosionActive')
          => /\ last'.op = "hand"
             /\ hand'.velocity > ClapVelocity /\ hand'.expansion < ClapExpansion]_vars

\* An explosion has died out, and ticks and a shape change have followed.
C4_Witness ==
  /\ ended > 0 /\ ~explosionActive
  /\ shapeChanges > 0
  /\ last.op = "tick"
  /\ MaxVel(explosionVelocities) < DecayThreshold
  /\ MaxVel(explosionVelocities) > 0

\* C5 as stated: within one unbroken run of hand updates that all satisfy
\* the clap condition, explosionActive goes from false to true at most once.
C5_OncePerBurst == burst.triggers <= 1

\* C5 amended: within such a run a further trigger needs a render tick
\* that ended the explosion in between; the triggers of the run never exceed
\* the explosions that died out during it by more than one.
C5_OncePerExplosion == burst.triggers <= burst.ended + 1

\* A sustained gesture that outlives its explosion and triggers the next.
C5_Witness ==
  /\ burst.triggers = 2 /\ burst.ended = 1
  /\ explosionActive /\ last.op = "hand" /\ last.triggered

(***************************************************************************)
(* Properties of the gesture extractor.                                    *)
(***************************************************************************)
InRange(lo, hi, x) == lo <= x /\ x <= hi

\* C6: every emitted signal has expansion, tension and twist in [0, 1],
\* rotation, centerX and centerY in [-1, 1] and velocity in [0, 1], for
\* landmarks in [0, 1], zero to two hands and timestamps of any spacing.
C6_SignalRanges ==
  /\ InRange(0, SCALE, hand.expansion)
  /\ InRange(0, SCALE, hand.tension)
  /\ InRange(0, SCALE, hand.twist)
  /\ InRange(-SCALE, SCALE, hand.rotation)
  /\ InRange(-SCALE, SCALE, hand.centerX)
  /\ InRange(-SCALE, SCALE, hand.centerY)
  /\ InRange(0, SCALE, hand.velocity)

\* C6 happens: a signal emitted for two grabbing hands after several
\* results, with a rotation, a twist, a velocity and an off-centre position.
C6_Witness ==
  /\ frames >= 2
  /\ hand.isPresent
  /\ hand.rotation < 0
  /\ hand.twist > 0
  /\ hand.velocity > 0
  /\ hand.centerX # 0
  /\ hand.grabbing

\* Whether a value moved from old to new without leaving the side of the
\* neutral value n it was on and without moving away from it.
Approaches(old, new, n) ==
  IF old >= n THEN n <= new /\ new <= old ELSE old <= new /\ new <= n

\* C7: a result without hands moves expansion towards 0.5 and tension,
\* rotation, twist and velocity towards 0, never past the neutral value and
\* never away from it.
C7_AbsentApproachesNeutral ==
  [][absentRun' = absentRun + 1 =>
       /\ Approaches(smoothed.expansion, smoothed'.expansion, 5000)
       /\ Approaches(smoothed.tension, smoothed'.tension, 0)
       /\ Approaches(smoothed.rotation, smoothed'.rotation, 0)
       /\ Approaches(smoothed.twist, smoothed'.twist, 0)
       /\ Approaches(smoothed.velocity, smoothed'.velocity, 0)
       /\ hand'.expansion = smoothed'.expansion
       /\ hand'.tension = smoothed'.tension
       /\ hand'.rotation = smoothed'.rotation
       /\ hand'.twist = smoothed'.twist
       /\ hand'.velocity = smoothed'.velocity]_vars

\* C7 happens: consecutive results without hands while every decaying field
\* is still off its neutral value.
C7_Witness ==
  /\ absentRun >= 2
  /\ smoothed.expansion # 5000
  /\ smoothed.tension > 0
  /\ smoothed.rotation # 0
  /\ smoothed.twist > 0
  /\ smoothed.velocity > 0

\* C8: the signal emitted for a result without hands has isPresent false and
\* grabbing false, whatever the results before it were.
C8_AbsentNotPresentNotGrabbing ==
  absentRun > 0 => hand.isPresent = FALSE /\ hand.grabbing = FALSE

\* C8 happens: a result without hands right after a signal for two grabbing
\* hands.
C8_Witness ==
  /\ absentRun = 1
  /\ prevEmitted.isPresent
  /\ prevEmitted.grabbing

Epsilon == SCALE \div 20

\* C9: after SettleFrames consecutive results without hands, expansion is
\* within Epsilon of 0.5 and tension, rotation, twist and velocity are within
\* Epsilon of 0, whatever the hands did before.
C9_SettlesToNeutral ==
  absentRun >= SettleFrames =>
    /\ Abs(hand.expansion - 5000) <= Epsilon
    /\ Abs(hand.tension) <= Epsilon
    /\ Abs(hand.rotation) <= Epsilon
    /\ Abs(hand.twist) <= Epsilon
    /\ Abs(hand.velocity) <= Epsilon

\* C9 happens: a long run of results without hands after results with two
\* hands.
C9_Witness ==
  /\ absentRun >= SettleFrames
  /\ frames > absentRun
  /\ prevFrame.hand2Y # 0
  /\ smoothed.tension > 0

\* C10 as stated: across two-hand results with a linearly growing wrist
\* distance the smoothed expansion never decreases, and it never exceeds 1.
C10_NonDecreasing ==
  /\ [][run'.len >= 2 => smoothed'.expansion >= smoothed.expansion]_vars
  /\ [](smoothed.expansion <= SCALE)

\* C10 amended: across such results the smoothed expansion does not decrease
\* on a result whose raw expansion is at least the smoothed value before it,
\* once that is so it stays so for the rest of the sequence, and the smoothed
\* expansion never exceeds 1.
C10_NonDecreasingOnceBelow ==
  /\ [][run'.len >= 2 =>
          /\ run'.below => smoothed'.expansion >= smoothed.expansion
          /\ run.below => run'.below]_vars
  /\ [](smoothed.expansion <= SCALE)

\* C10 happens: three two-hand results with a linearly growing wrist
\* distance, the smoothed expansion below the raw one at the third.
C10_Witness ==
  /\ run.len >= 3
  /\ run.below
  /\ smoothed.expansion > 0

(***************************************************************************)
(* Properties of the detection cycle.                                      *)
(***************************************************************************)
\* A step that is a scheduled call of predictWebcam finding the video where
\* the last processed cycle left it.
StalledStep ==
  /\ cam = "looping"
  /\ cam' = "looping"
  /\ lastVideoTime' = lastVideoTime
  /\ last'.op # "tick"

\* C11: a cycle that finds the video timestamp where the last processed cycle
\* left it changes neither the smoothing state nor the previous-frame state,
\* emits no signal (no absent-hand signal either) and leaves the shared
\* current signal as it was.
C11_StalledVideoSkips ==
  [][StalledStep =>
       /\ smoothed' = smoothed
       /\ prevFrame' = prevFrame
       /\ hand' = hand
       /\ prevEmitted' = prevEmitted
       /\ frames' = frames
       /\ absentRun' = absentRun
       /\ last'.op = "stalled"]_vars

\* C11 happens: a cycle on a stalled video after a signal for hands that an
\* absent-hand signal would have replaced and decayed.
C11_Witness ==
  /\ last.op = "stalled"
  /\ frames >= 1
  /\ hand.isPresent
  /\ smoothed.tension > 0

\* C12: a cycle whose detection throws or returns hands that lack a landmark
\* is treated as a frame without hands: it decays the smoothing state and
\* emits the absent-hand signal, leaves the previous-frame state alone, and
\* the cycles go on.
C12_FailureIsNoHands ==
  [][last'.op = "threw" =>
       /\ smoothed' = AbsentDecay(smoothed)
       /\ hand' = AbsentSignal(AbsentDecay(smoothed))
       /\ prevFrame' = prevFrame
       /\ cam' = "looping"]_vars

(***************************************************************************)
(* Properties of the particle buffers and of the shape change.             *)
(***************************************************************************)
\* C13: after startup and any sequence of shape changes, render ticks and
\* explosion triggers, the positions, targets and explosionVelocities buffers
\* all have length 3 * PARTICLE_COUNT (targets and explosionVelocities exist
\* from construction on).
C13_BufferLengths ==
  /\ Len(targets) = 3 * PARTICLE_COUNT
  /\ Len(explosionVelocities) = 3 * PARTICLE_COUNT
  /\ phase # "constructed" => Len(positions) = 3 * PARTICLE_COUNT

\* C13 happens: a state after the startup, a trigger, a shape change and a
\* render tick of the explosion.
C13_Witness ==
  /\ shapeChanges >= 1
  /\ ticks >= 2
  /\ explosionActive
  /\ last.op = "tick"
  /\ explosionVelocities # ZeroVelocities

C15_ShapeChangeReplacesTargets ==
  [][last'.op = "shape" =>
       /\ targets' \in {generateParticles(activeShape', s) : s \in Seeds}
       /\ activeShape' # activeShape
       /\ UNCHANGED <<positions, explosionVelocities, explosionActive, currentScale,
                      rotationVelocity, hand>>]_vars

\* C15 happens: a shape change during an explosion, with hands present and
\* the particles away from the new cloud.
C15_Witness ==
  /\ last.op = "shape"
  /\ explosionActive
  /\ hand.isPresent
  /\ positions # targets
  /\ explosionVelocities # ZeroVelocities

(***************************************************************************)
(* Properties of the morph.                                                *)
(***************************************************************************)
\* No jitter and no pull: the hand is absent, or it has tension 0 and does
\* not grab.
Quiet(h) == ~h.grabbing /\ (~h.isPresent \/ h.tension = 0)

\* The distance to the target below which the blend step rounds to nothing.
MorphResolution == (SCALE \div (2 * lerpSpeed)) + 1

\* A render tick without explosion, jitter and pull.
QuietTick == last'.op = "tick" /\ ~explosionActive /\ Quiet(hand)

\* Coordinate k stays on its side of the target and does not move away.
NotFarther(k) ==
  LET d == targets[k] - positions[k]
      e == targets[k] - positions'[k]
  IN  IF d >= 0 THEN 0 <= e /\ e <= d ELSE d <= e /\ e <= 0

StrictlyCloser(k) ==
  Abs(targets[k] - positions'[k]) < Abs(targets[k] - positions[k])

\* C16 as stated: with no explosion, jitter or pull, a render tick moves
\* every coordinate that differs from its target strictly closer to it,
\* without overshooting.
C16_MorphStrictlyCloser ==
  [][QuietTick =>
       \A k \in Coords :
         /\ NotFarther(k)
         /\ positions[k] # targets[k] => StrictlyCloser(k)]_vars

\* C16 amended: such a tick moves no coordinate away from its target or past
\* it, and moves it strictly closer when it is at least the resolution of
\* the blend step away; nearer than that, the coordinate stays where it is.
C16_MorphCloserAboveResolution ==
  [][QuietTick =>
       \A k \in Coords :
         /\ NotFarther(k)
         /\ Abs(targets[k] - positions[k]) >= MorphResolution => StrictlyCloser(k)
         /\ Abs(targets[k] - positions[k]) < MorphResolution =>
              positions'[k] = positions[k]]_vars

\* C16 happens: after a shape change and a long run of quiet ticks, a
\* coordinate rests short of its target.
C16_Witness ==
  /\ last.op = "tick"
  /\ shapeChanges >= 1
  /\ ~explosionActive
  /\ Quiet(hand)
  /\ \E k \in Coords :
       /\ positions[k] # targets[k]
       /\ Abs(targets[k] - positions[k]) < MorphResolution

(***************************************************************************)
(* Properties of the whole system.                                         *)
(***************************************************************************)
\* The shared signal is the whole output of the latest completed extractor
\* update, or the initial neutral signal when there has been none.
WholeSnapshot ==
  IF frames = 0 THEN hand = NeutralHand
  ELSE /\ hand.expansion = smoothed.expansion
       /\ hand.tension = smoothed.tension
       /\ hand.centerX = smoothed.centerX
       /\ hand.centerY = smoothed.centerY
       /\ hand.rotation = smoothed.rotation
       /\ hand.twist = smoothed.twist
       /\ hand.velocity = smoothed.velocity
       /\ hand.isPresent = (absentRun = 0)
       /\ hand.grabbing => hand.isPresent

\* What a tick leaves when every field it reads is taken from the signal h.
TickFrom(h) ==
  Tick(positions, targets, explosionVelocities, explosionActive, currentScale,
       rotationVelocity, h, [k \in Coords |-> 5000])

\* C17: under any interleaving of extractor updates and render ticks, the
\* shared signal is always one whole snapshot of the latest completed update,
\* a tick computes everything from that snapshot and leaves it in place, and
\* only an update replaces it.
C17_TickUsesLatestSnapshot ==
  /\ []WholeSnapshot
  /\ [][last'.op = "tick" =>
          /\ hand' = hand
          /\ positions' = TickFrom(hand).positions
          /\ currentScale' = TickFrom(hand).currentScale
          /\ rotationVelocity' = TickFrom(hand).rotationVelocity]_vars
  /\ [][hand' # hand => last'.op = "hand"]_vars

\* C17 happens: a render tick after two updates with different signals, the
\* latest for two grabbing hands.
C17_Witness ==
  /\ last.op = "tick"
  /\ frames >= 2
  /\ hand.isPresent
  /\ hand.grabbing
  /\ hand.tension > 0
  /\ prevEmitted # hand
  /\ prevEmitted.isPresent

\* C18: once the teardown has completed, neither the render tick nor any
\* extractor callback (predictWebcam, processResults, onHandUpdate) runs
\* again, wherever the two periodic sources were and whether or not the
\* video's 'loadeddata' event had fired.
C18_NoCallbackAfterTeardown ==
  [][phase = "unmounted" =>
       last'.op \notin {"tick", "hand", "stalled", "threw", "guard"}]_vars

(***************************************************************************)
(* Properties of the explosion velocities.                                 *)
(***************************************************************************)
\* C19 as stated: whenever explosionActive is false, every entry of
\* explosionVelocities is zero.
C19_ZeroWhenInactive ==
  ~explosionActive => explosionVelocities = ZeroVelocities

\* C19 amended: whenever explosionActive is false, every particle's summed
\* absolute velocity is below the termination threshold; the entries are all
\* zero only until the first explosion has ended.
C19_BelowThresholdWhenInactive ==
  ~explosionActive =>
    /\ MaxVel(explosionVelocities) < DecayThreshold
    /\ ended = 0 => explosionVelocities = ZeroVelocities

\* C19 happens: an explosion has died out and left its residual velocities.
C19_Witness ==
  /\ ~explosionActive
  /\ ended >= 1
  /\ explosionVelocities # ZeroVelocities

GrabThreshold == (6 * SCALE) \div 10

\* C21: the emitted grabbing flag is true only when the result holds exactly
\* two hands and each of them has a per-hand tension above 0.6; with no hand,
\* one hand, or a hand at tension 0.6 or less, the flag is false.
C21_GrabbingNeedsTwoFists ==
  frames > 0 =>
    (hand.grabbing <=>
       /\ Len(seen.results) = 2
       /\ \A i \in 1 .. 2 : HandTension(seen.results[i]) > GrabThreshold)

\* C21 happens: a result with two hands, one a fist and one at tension
\* exactly 0.6, has been emitted as not grabbing.
C21_Witness ==
  /\ frames > 0
  /\ hand.isPresent
  /\ Len(seen.results) = 2
  /\ HandTension(seen.results[1]) > GrabThreshold
  /\ HandTension(seen.results[2]) = GrabThreshold
  /\ ~hand.grabbing

(***************************************************************************)
(* The provider called on its own, with every tag, count and version.      *)
(***************************************************************************)
Counts == 0 .. MaxCount

GenCalls ==
  {[version |-> v, shape |-> t, seed |-> s, count |-> c, omitted |-> o,
    done |-> FALSE, out |-> << >>] :
     v \in Versions, t \in ShapeTags, s \in Seeds, c \in Counts, o \in BOOLEAN}

\* The count the function body works with.
CountOf(g) == IF g.omitted THEN DefaultCount(g.version) ELSE g.count

InitGen ==
  /\ phase = "constructed"
  /\ activeShape = GALAXY
  /\ hand = NeutralHand
  /\ explosionActive = FALSE
  /\ explosionVelocities = ZeroVelocities
  /\ currentScale = RestScale
  /\ rotationVelocity = 0
  /\ targets = generateParticles(GALAXY, 0)
  /\ positions = << >>
  /\ pointsRef = FALSE
  /\ ticks = 0
  /\ shapeChanges = 0
  /\ ended = 0
  /\ age = 0
  /\ gen \in {g \in GenCalls : g.omitted => g.count = 0}
  /\ earlier = OldConstructed
  /\ burst = [triggers |-> 0, ended |-> 0]
  /\ last = [op |-> "init", triggered |-> FALSE]
  /\ smoothed = [expansion |-> 5000, tension |-> 0, centerX |-> 0, centerY |-> 0,
                 rotation |-> 0, twist |-> 0, velocity |-> 0]
  /\ prevFrame = [centerX |-> 0, centerY |-> 0, timestamp |-> 0, hand1Y |-> 0, hand2Y |-> 0]
  /\ now = 0
  /\ frames = 0
  /\ absentRun = 0
  /\ run = [len |-> 0, dist |-> 0, inc |-> 0, below |-> FALSE]
  /\ prevEmitted = NeutralHand
  /\ seen = [results |-> << >>, dt |-> 0]
  /\ cam = "loading"
  /\ lastVideoTime = -1

\* The call returns.
Generate ==
  /\ ~gen.done
  /\ gen' = [gen EXCEPT !.done = TRUE,
                        !.out = generateParticlesOf(gen.version, gen.shape, gen.seed,
                                                    CountOf(gen))]
  /\ last' = [op |-> "generate", triggered |-> FALSE]
  /\ UNCHANGED <<appVars, ticks, shapeChanges, ended, age, earlier, burst, trackerVars, camVars>>

NextGen == Generate

SpecGen == InitGen /\ [][NextGen]_vars

\* C22: generateParticles(shape, count) returns a buffer of exactly 3 * count
\* numbers, three per particle, for every shape tag, the tags without a case
\* of their own included, in the 8000-particle and the 16000-particle version.
C22_ThreePerParticle ==
  gen.done =>
    /\ DOMAIN gen.out = 1 .. (3 * CountOf(gen))
    /\ \A i \in 0 .. (CountOf(gen) - 1) :
         <<gen.out[3 * i + 1], gen.out[3 * i + 2], gen.out[3 * i + 3]>>
           \in {CaseTable(gen.version, gen.shape)[j] :
                  j \in 1 .. Len(CaseTable(gen.version, gen.shape))}

\* C22 happens: the 16000-particle version has returned the cloud of a tag it
\* has no case for, for a count given by the caller.
C22_Witness ==
  /\ gen.done
  /\ gen.version = "part_001"
  /\ gen.shape = UNKNOWN
  /\ ~gen.omitted
  /\ gen.count = MaxCount
  /\ Len(gen.out) = 3 * MaxCount

\* C23: a detection cycle that throws affects only itself: after it the
\* detection callback is still scheduled, so that every later advanced video
\* frame is processed and a signal is emitted for it.
C23_FailureLeavesLoopScheduled ==
  last.op = "threw" => cam = "looping"

(***************************************************************************)
(* One explosion under every interleaving of hand updates and shape        *)
(* changes: the trigger comes within the first idle ticks, the strongest   *)
(* and the weakest force are drawn.                                        *)
(***************************************************************************)
BurstDraws == {[i \in Particles |-> 0], [i \in Particles |-> 9999]}

HandUpdateBurst ==
  /\ \E data \in DecaySignals : handleHandUpdate(data, BurstDraws)
  /\ UNCHANGED <<trackerVars, camVars>>

AnimateBurst ==
  /\ (~explosionActive /\ ended = 0) => ticks < MaxIdleTicks
  /\ ended = 0
  /\ AnimateWith(MaxBurstTicks, {[k \in Coords |-> 5000]})

ShapeChangeBurst ==
  /\ ticks % ShapeChangePeriod = 0
  /\ ShapeChange

NextBurst == Mount \/ HandUpdateBurst \/ AnimateBurst \/ ShapeChangeBurst

SpecBurst == Init /\ [][NextBurst]_vars

\* C24: an explosion ends by itself: once triggered it is inactive again
\* after a bounded number of render ticks, whatever hand updates and shape
\* changes come in between; no hand update extends or restarts it meanwhile.
C24_ExplosionSelfTerminates ==
  explosionActive => age < MaxExplosionTicks

\* C24 happens: an explosion of the strongest force has died out after more
\* than sixty ticks, with a shape change and a further clap update on the way.
C24_Witness ==
  /\ ~explosionActive
  /\ ended = 1
  /\ age > 60
  /\ shapeChanges = 1
  /\ burst.triggers = 1
  /\ ClapCondition(hand)
  /\ last.op = "tick"

\* A step of processResults on a result with n hands.
FrameWith(n) == frames' = frames + 1 /\ Len(seen'.results) = n

\* C25: on a result with two hands the raw rotation is non-zero only when the
\* two wrists' vertical velocities have opposite signs, one strictly positive
\* and one strictly negative; otherwise, one wrist vertically at rest
\* included, it is zero, and the smoothed rotation is blended towards 0.
C25_RotationNeedsOpposedWrists ==
  [][FrameWith(2) =>
       LET h1 == Hand1YVel(seen'.results, prevFrame)
           h2 == Hand2YVel(seen'.results, prevFrame)
       IN  ~((h1 > 0 /\ h2 < 0) \/ (h1 < 0 /\ h2 > 0)) =>
             /\ RawRotation(seen'.results, prevFrame) = 0
             /\ smoothed'.rotation = lerp(smoothed.rotation, 0, RotationSpeed)]_vars

\* C26: on every result with two hands a hand's vertical velocity is the
\* difference between its wrist Y in this result and its wrist Y in the
\* result processed immediately before, also when that result held one hand
\* or none and for the first two-hand result after startup; so the stored
\* wrist Y of the first hand is the one of the preceding result whenever that
\* result held a hand.
C26_VelocityFromPrecedingFrame ==
  [][(FrameWith(2) /\ frames > 0 /\ Len(seen.results) > 0) =>
       /\ prevFrame.hand1Y = seen.results[1].w[2]
       /\ Hand1YVel(seen'.results, prevFrame)
            = seen'.results[1].w[2] - seen.results[1].w[2]]_vars

\* C27: the raw velocity is the displacement of the hand centre since the
\* previous result with hands, both taken in the same coordinate space,
\* divided by the elapsed time: when two consecutive results with hands,
\* between 0 and 0.5 s apart, have the same wrists, the raw velocity is 0 and
\* the smoothed velocity does not increase.
C27_StillHandsHaveNoVelocity ==
  [][(/\ frames' = frames + 1
      /\ frames > 0
      /\ Len(seen.results) > 0
      /\ seen'.results = seen.results
      /\ seen'.dt > 0
      /\ seen'.dt < 500) =>
       /\ ClampedVelocity(seen'.results, now', prevFrame) = 0
       /\ smoothed'.velocity <= smoothed.velocity]_vars

\* C28: a result with hands whose time since the previous result with hands
\* is not strictly between 0 and 0.5 s leaves the smoothed velocity unchanged,
\* while the stored previous centre and timestamp are updated all the same.
C28_VelocityKeptOutsideWindow ==
  [][(/\ frames' = frames + 1
      /\ Len(seen'.results) > 0
      /\ ~(seen'.dt > 0 /\ seen'.dt < 500)) =>
       /\ seen'.dt = now' - prevFrame.timestamp
       /\ smoothed'.velocity = smoothed.velocity
       /\ prevFrame'.centerX = MirrorX(WristCentre(seen'.results)[1])
       /\ prevFrame'.centerY = MirrorY(WristCentre(seen'.results)[2])
       /\ prevFrame'.timestamp = now']_vars

\* C28 happens: a result with hands has come 0.6 s after the previous one,
\* at a centre other than the stored one, and has left the smoothed velocity
\* where it was, short of the 1 a measurement would have pulled it towards.
C28_Witness ==
  /\ frames > 1
  /\ hand.isPresent
  /\ seen.dt >= 500
  /\ prevEmitted.isPresent
  /\ hand.velocity = prevEmitted.velocity
  /\ hand.velocity > 0
  /\ hand.velocity < SCALE
  /\ hand.centerX # prevEmitted.centerX
  /\ prevFrame.timestamp = now

\* C29: on a result with one hand the raw expansion is 0.5 and the raw
\* rotation and twist are 0: the smoothed expansion moves towards 0.5 and the
\* smoothed rotation and twist towards 0, none of them past its target.
C29_OneHandNeutralPair ==
  [][FrameWith(1) =>
       /\ RawExpansion(seen'.results) = SCALE \div 2
       /\ RawRotation(seen'.results, prevFrame) = 0
       /\ RawTwist(seen'.results, prevFrame) = 0
       /\ smoothed'.expansion = lerp(smoothed.expansion, SCALE \div 2, smoothingSpeed)
       /\ smoothed'.rotation = lerp(smoothed.rotation, 0, RotationSpeed)
       /\ smoothed'.twist = lerp(smoothed.twist, 0, TwistSpeed)
       /\ Approaches(smoothed.expansion, smoothed'.expansion, SCALE \div 2)
       /\ Approaches(smoothed.rotation, smoothed'.rotation, 0)
       /\ Approaches(smoothed.twist, smoothed'.twist, 0)]_vars

\* C29 happens: a result with one hand has followed results with two hands
\* that had moved the expansion, the rotation and the twist off their rest
\* values, and has moved each of them back towards it.
C29_Witness ==
  /\ frames > 1
  /\ Len(seen.results) = 1
  /\ hand.isPresent
  /\ prevEmitted.isPresent
  /\ Abs(hand.expansion - SCALE \div 2) < Abs(prevEmitted.expansion - SCALE \div 2)
  /\ Abs(hand.rotation) < Abs(prevEmitted.rotation)
  /\ hand.twist < prevEmitted.twist
  /\ hand.twist > 0

DecayingFields == {"expansion", "tension", "rotation", "twist", "velocity"}

\* The rest value each decaying field is blended towards without hands.
RestValue ==
  [expansion |-> SCALE \div 2, tension |-> 0, rotation |-> 0, twist |-> 0,
   velocity |-> 0]

\* Whether the latest result was one without hands and moved every decaying
\* field of the signal emitted before by one blend at its absent rate.
DecayedAtAbsentRate ==
  \A f \in DecayingFields :
    hand[f] = lerp(prevEmitted[f], RestValue[f], AbsentRate[f])

\* C30 as stated: for every smoothed field that decays without hands
\* (expansion, tension, rotation, twist, velocity) the rate of the absent
\* blend is strictly lower than the rate of the present blend of that field.
C30_AbsentRateLower ==
  (frames > 0 /\ ~hand.isPresent) =>
    /\ DecayedAtAbsentRate
    /\ \A f \in DecayingFields : AbsentRate[f] < PresentRate[f]

\* C30 amended: a result without hands blends every decaying field at its
\* absent rate, which is strictly lower than the field's present rate for
\* expansion, tension, rotation and velocity, and higher for the twist.
C30_AbsentRateLowerButTwist ==
  (frames > 0 /\ ~hand.isPresent) =>
    /\ DecayedAtAbsentRate
    /\ \A f \in DecayingFields \ {"twist"} : AbsentRate[f] < PresentRate[f]
    /\ AbsentRate["twist"] > PresentRate["twist"]

\* C30 happens: a result without hands has followed one with hands; it has
\* taken the rotation less far towards 0 than a blend at the present rate
\* would have, and the twist farther.
C30_Witness ==
  /\ frames > 1
  /\ ~hand.isPresent
  /\ prevEmitted.isPresent
  /\ prevEmitted.rotation > 0
  /\ hand.rotation > lerp(prevEmitted.rotation, 0, PresentRate.rotation)
  /\ hand.twist > 0
  /\ hand.twist < lerp(prevEmitted.twist, 0, PresentRate.twist)

(***************************************************************************)
(* Claims C31 to C38.                                                      *)
(***************************************************************************)
\* The signal of a hand at the midpoint of the expansion.
AtMidpoint(h) == h.isPresent /\ h.expansion = SCALE \div 2

\* C31 as stated: the target scale of a tick without a hand, the rest value,
\* is larger than the target scale of a tick with a hand whose expansion is
\* at its midpoint 0.5.
C31_RestAboveMidpoint ==
  AtMidpoint(hand) => TargetScale(NeutralHand) > TargetScale(hand)

\* C31 amended: the target scale of a tick without a hand is the rest value
\* 1.2, which is smaller than the target scale 1.5 of a tick with a hand at
\* the midpoint.
C31_RestBelowMidpoint ==
  AtMidpoint(hand) =>
    /\ TargetScale(NeutralHand) = RestScale
    /\ TargetScale(NeutralHand) < TargetScale(hand)

\* C31 happens: ticks with a hand at the midpoint have taken the scale from
\* the rest value 1.2 to above 1.45.
C31_Witness ==
  /\ AtMidpoint(hand)
  /\ last.op = "tick"
  /\ currentScale > RestScale + 2500
  /\ currentScale < TargetScale(hand)

\* A step that runs animate: a render tick, or the first call at the mount.
TickStep == last'.op \in {"tick", "mount"}

\* C32: currentScale is never snapped: every render tick moves it by the
\* fraction 0.08 of its gap to the tick's target scale, so that it neither
\* lands on the target nor crosses it, also when the signal has switched
\* between a present and an absent hand since the tick before; and nothing
\* but the render tick changes currentScale.
C32_ScaleNeverSnapped ==
  [][IF TickStep
     THEN LET gap == TargetScale(hand) - currentScale
          IN  /\ currentScale' = currentScale + MulS(gap, gestureResponseSpeed)
              /\ gap # 0 =>
                   /\ currentScale' # TargetScale(hand)
                   /\ Sign(TargetScale(hand) - currentScale') = Sign(gap)
     ELSE currentScale' = currentScale]_vars

\* C32 happens: after a tick with a hand present, which took the scale below
\* the rest value, a tick without a hand has moved it back up, short of the
\* rest value.
C32_Witness ==
  /\ last.op = "tick"
  /\ ticks >= 2
  /\ ~hand.isPresent
  /\ currentScale < RestScale
  /\ currentScale > RestScale - 500

\* C33: the implosion pull works on the tick's local copy of each target
\* coordinate: no render tick, whatever the signal and whether or not an
\* explosion is active, changes an element of the targets buffer; only a
\* shape change (the shape effect, which also runs at the mount) does.
C33_TicksLeaveTargets ==
  [][/\ last'.op = "tick" => targets' = targets
     /\ targets' # targets => last'.op \in {"shape", "mount"}]_vars

\* C33 happens: a tick of an active explosion with a grabbing hand, whose
\* pull moves every target coordinate other than 0, has left the targets
\* the cloud the provider made.
C33_Witness ==
  /\ last.op = "tick"
  /\ hand.grabbing
  /\ explosionActive
  /\ \E k \in Coords : PulledTarget(targets[k], hand) # targets[k]
  /\ targets \in {generateParticles(activeShape, s) : s \in Seeds}

\* The limit of the accumulator under a rotation signal held at 1:
\* 0.015 * 0.92 / (1 - 0.92).
SpinBound == (150 * 9200) \div (SCALE - 9200)

\* C34: the spin accumulator bleeds off once the gesture is released: a tick
\* without a hand, or with a rotation signal of 0, multiplies rotationVelocity
\* by 0.92, so that its magnitude does not grow and its sign stays; and with
\* rotation signals in [-1, 1] its magnitude stays below a fixed bound.
C34_SpinBleedsOff ==
  [][/\ (TickStep /\ (~hand.isPresent \/ hand.rotation = 0)) =>
          /\ rotationVelocity' = MulS(rotationVelocity, 9200)
          /\ Abs(rotationVelocity') <= Abs(rotationVelocity)
          /\ rotationVelocity # 0 => Sign(rotationVelocity') = Sign(rotationVelocity)
     /\ Abs(rotationVelocity') < SpinBound]_vars

\* C34 happens: a spin built up by a turning gesture has bled off, over ticks
\* without a hand, to less than 0.01 without changing its sign.
C34_Witness ==
  /\ last.op = "tick"
  /\ ~hand.isPresent
  /\ rotationVelocity > 0
  /\ rotationVelocity < 100

(***************************************************************************)
(* The whole life of one explosion in the whole system: the tracker gets   *)
(* ready and its loop starts, signals arrive while the loop runs, the      *)
(* video stalls, the shape changes, App is torn down.                      *)
(***************************************************************************)
LifeDraws == {[i \in Particles |-> 0]}

\* The first cycle, called by the video's 'loadeddata' event, on a frame
\* without hands.
FirstCycle ==
  /\ phase = "mounted"
  /\ cam = "attached"
  /\ ProcessingCycle(0, [kind |-> "ok", hands |-> << >>])

\* A later cycle that finds the video where the last one left it.
SkippedFrame ==
  /\ phase = "mounted"
  /\ cam = "looping"
  /\ StalledCycle

\* A later cycle on a fresh frame, by the signal it emits.
HandUpdateLife ==
  /\ phase = "mounted"
  /\ cam = "looping"
  /\ \E data \in DecaySignals : handleHandUpdate(data, LifeDraws)
  /\ UNCHANGED <<trackerVars, camVars>>

NextLife ==
  \/ Mount
  \/ Unmount
  \/ TrackerReady
  \/ FirstCycle
  \/ SkippedFrame
  \/ HandUpdateLife
  \/ AnimateBurst
  \/ ShapeChangeBurst

SpecLife == Init /\ [][NextLife]_vars

\* C35: explosionActive turns from true to false only in a render tick and
\* from false to true only in a hand update that triggers the clap; a shape
\* change, a skipped video frame and the teardown leave it as it is, and a
\* render tick never sets it.
C35_ExplosionFlagWriters ==
  [][/\ (explosionActive /\ ~explosionActive') => last'.op = "tick"
     /\ (~explosionActive /\ explosionActive') =>
          (last'.op = "hand" /\ last'.triggered)
     /\ last'.op \in {"shape", "stalled", "unmount", "ready"} =>
          explosionActive' = explosionActive
     /\ TickStep => (explosionActive' => explosionActive)]_vars

\* C35 happens: an explosion has been triggered by a hand update and ended
\* by a render tick, with a shape change and a skipped frame on the way, and
\* App has been torn down since.
C35_Witness ==
  /\ phase = "unmounted"
  /\ ended = 1
  /\ shapeChanges = 1
  /\ ~explosionActive
  /\ cam = "cancelled"
  /\ age > 60

(***************************************************************************)
(* A clap seen through the extractor: two fists held together, or no hands,*)
(* with render ticks while an explosion is active.                         *)
(***************************************************************************)
ClapResults == {<<HandA, HandA>>, << >>}

ProcessClap ==
  /\ phase = "mounted"
  /\ frames < MaxClapFrames
  /\ \E results \in ClapResults :
       /\ now' = now + 16
       /\ processResults(results, now + 16)
  /\ UNCHANGED camVars

AnimateClap ==
  /\ ~explosionActive => ticks < MaxIdleTicks
  /\ AnimateWith(MaxBurstTicks, {[k \in Coords |-> 5000]})

NextClap == Mount \/ ProcessClap \/ AnimateClap

SpecClap == Init /\ [][NextClap]_vars

\* C36: an explosion is only ever triggered by a signal with a hand present:
\* no signal that the extractor emits for a result without hands starts one.
C36_TriggerNeedsHand ==
  (last.op = "hand" /\ last.triggered) => hand.isPresent

\* C37: a result without hands emits centerX and centerY exactly as they
\* were smoothed last, neither decayed nor reset, and leaves the stored
\* previous centre, timestamp and wrist Y values unchanged.
C37_AbsentKeepsCentre ==
  [][FrameWith(0) =>
       /\ smoothed'.centerX = smoothed.centerX
       /\ smoothed'.centerY = smoothed.centerY
       /\ hand'.centerX = smoothed.centerX
       /\ hand'.centerY = smoothed.centerY
       /\ prevFrame' = prevFrame]_vars

\* C37 happens: a result without hands has followed, 16 ms or more later,
\* one with hands off the centre, and has emitted the same centre again and
\* left the stored timestamp behind the clock.
C37_Witness ==
  /\ frames > 1
  /\ ~hand.isPresent
  /\ prevEmitted.isPresent
  /\ hand.centerX # 0
  /\ hand.centerY # 0
  /\ hand.centerX = prevEmitted.centerX
  /\ hand.centerY = prevEmitted.centerY
  /\ prevFrame.timestamp < now
  /\ prevFrame.centerX # 0

(***************************************************************************)
(* The earlier App component (App.tsx 24-337): its two animation loops,    *)
(* which share animationFrameRef.  A scheduled callback is its loop ("dep" *)
(* for the effect with deps [handData], "ref" for the effect with no deps) *)
(* and its requestAnimationFrame id.                                       *)
(***************************************************************************)
\* cancelAnimationFrame(id)
Cancelled(pending, id) == {c \in pending : c.id # id}

\* animate() of the given loop: the body, then
\* animationFrameRef.current = requestAnimationFrame(animate).
OldAnimate(o, loop) ==
  [o EXCEPT !.pending = @ \cup {[loop |-> loop, id |-> o.nextId]},
            !.ref = o.nextId,
            !.nextId = @ + 1]

\* The effect with deps [handData]: its cleanup and its body.
DepCleanup(o) == [o EXCEPT !.pending = Cancelled(@, o.ref)]

DepEffect(o) == OldAnimate(o, "dep")

\* The effect with no deps: it cancels what animationFrameRef holds, then
\* starts its own loop.
RefEffect(o) ==
  OldAnimate(IF o.ref # 0 THEN [o EXCEPT !.pending = Cancelled(@, o.ref)] ELSE o, "ref")

OldRest ==
  UNCHANGED <<appVars, ticks, shapeChanges, ended, age, gen, burst, trackerVars, camVars>>

\* The first commit: the effects in their order in the component.
OldMount ==
  /\ earlier.phase = "constructed"
  /\ earlier' = [RefEffect(DepEffect(earlier)) EXCEPT !.phase = "mounted"]
  /\ last' = [op |-> "oldmount", triggered |-> FALSE]
  /\ OldRest

\* A scheduled animation callback runs.
OldFrame ==
  /\ earlier.fired < MaxOldFrames
  /\ \E c \in earlier.pending :
       earlier' = [OldAnimate([earlier EXCEPT !.pending = @ \ {c}], c.loop)
                 EXCEPT !.fired = @ + 1]
  /\ last' = [op |-> "oldframe", triggered |-> FALSE]
  /\ OldRest

\* HandTracker calls setHandData with a new object: the component renders
\* again and the effect with deps [handData] is cleaned up and run.
OldHandData ==
  /\ earlier.phase = "mounted"
  /\ earlier.updates < MaxOldUpdates
  /\ earlier' = [DepEffect(DepCleanup(earlier)) EXCEPT !.updates = @ + 1]
  /\ last' = [op |-> "oldhand", triggered |-> FALSE]
  /\ OldRest

\* The unmount: the cleanups of the two loop effects, each cancelling what
\* animationFrameRef holds.
OldUnmount ==
  /\ earlier.phase = "mounted"
  /\ earlier' = [earlier EXCEPT !.phase = "unmounted", !.pending = Cancelled(@, earlier.ref)]
  /\ last' = [op |-> "oldunmount", triggered |-> FALSE]
  /\ OldRest

NextOld == OldMount \/ OldFrame \/ OldHandData \/ OldUnmount

SpecOld == Init /\ [][NextOld]_vars

\* C38: in the earlier App the loop started by the effect with no deps keeps
\* running across hand-data updates: an update neither cancels its scheduled
\* callback nor puts a callback of another loop in its place; and at every
\* moment at most one animation callback is scheduled.
C38_RefLoopSurvivesUpdates ==
  [][/\ last'.op = "oldhand" =>
          /\ \A c \in earlier.pending : c.loop = "ref" => c \in earlier'.pending
          /\ \A c \in earlier'.pending : c.loop = "ref"
     /\ Cardinality(earlier'.pending) <= 1]_vars

====
